---- MODULE Spec2Model ----
(***************************************************************************)
(* A model of the geargrid back end: the relational store as the handlers  *)
(* see it, and each HTTP handler as a process that takes one step per      *)
(* awaited store call.  Each subsystem (event registrations, builds,       *)
(* business reviews, follows) has its own specification over the shared    *)
(* variables.                                                              *)
(***************************************************************************)
EXTENDS Integers, Sequences, FiniteSets, TLC

\* ------------------------------------------------------------------------
\* Bounds of the model
\* ------------------------------------------------------------------------
\* number of build ids the auto-increment counter may hand out
MaxBuilds == 1
\* most gallery rows a build may come to hold
MaxGallery == 4
\* longest mod list of a request
MaxMods == 2
\* number of review ids the auto-increment counter may hand out
MaxReviews == 2
\* longest car list of a registration request
MaxCars == 2
\* number of registration ids the auto-increment counter may hand out
MaxRegs == 2
\* ticks of the clock
MaxClock == 3
\* ticks a session token lives (expiresIn: '1h')
TokenLife == 2
\* tokens issued by login
MaxLogins == 2

\* ------------------------------------------------------------------------
\* Values
\* ------------------------------------------------------------------------
Users == {1, 2}
\* a missing (falsy) id in a request body
NoId == 0
Conns == {1, 2}
Events == {1}
Emails == {"a@x", "b@x"}
CarMakes == {"m1"}

RECURSIVE SeqsUpTo(_, _)
SeqsUpTo(S, n) ==
  IF n = 0 THEN {<<>>}
  ELSE LET shorter == SeqsUpTo(S, n - 1)
       IN shorter \cup {Append(s, x) : s \in {t \in shorter : Len(t) = n - 1}, x \in S}

\* response messages
MsgOk == "ok"
MsgUserIdMissing == "User ID is missing"
MsgAlreadyRegistered == "This email is already registered for this event."
MsgDuplicateEntry == "A duplicate entry occurred"
MsgServerError == "server error"
NoResp == [status |-> 0, msg |-> "none"]

VARIABLES
  \* table event_registrations: the committed rows
  registrations,
  \* table registered_cars: the committed rows, in insertion order
  registered_cars,
  \* AUTO_INCREMENT counter of event_registrations
  nextRegId,
  \* per pool connection: the register-event request running on it
  regConn,
  \* table follows: the rows, in insertion order
  follows,
  \* the last follow / unfollow request and its response
  followLast,
  \* table business_reviews: the rows, in insertion order
  business_reviews,
  \* AUTO_INCREMENT counter of business_reviews
  nextReviewId,
  \* whether the schema has a unique key on (business_id, user_id); the
  \* handlers do not say, and run the same statements either way
  reviewUniqueKey,
  \* per concurrent request slot: the review request in flight
  reviewProc,
  \* the response to the review request that finished last
  reviewLast,
  \* table builds: by id, the row or NoBuild
  builds,
  \* table build_gallery: by build_id, the image_url of its rows, in
  \* insertion order
  build_gallery,
  \* table build_mods: by build_id, its rows, in insertion order
  build_mods,
  \* AUTO_INCREMENT counter of builds
  nextBuildId,
  \* per concurrent request slot: the build request in flight, with the
  \* uncommitted rows of its transaction
  buildConn,
  \* the build request that finished last, and its response
  buildLast,
  \* the time jwt.sign and jwt.verify read
  clock,
  \* the token cookie of the browser
  cookie,
  \* the tokens login has issued (anyone may hold a copy)
  issued,
  \* history: the issued tokens that were in the cookie at a logout
  loggedOut,
  \* the last request to login, logout or a guarded read, and its response
  sessionLast,
  \* the update-event-registration request in flight, with the uncommitted
  \* rows of its transaction, or the response of the one that finished last
  updConn

regVars == <<registrations, registered_cars, nextRegId, regConn, updConn>>
followVars == <<follows, followLast>>

reviewVars == <<business_reviews, nextReviewId, reviewUniqueKey, reviewProc, reviewLast>>

buildVars == <<builds, build_gallery, build_mods, nextBuildId, buildConn, buildLast>>

sessionVars == <<clock, cookie, issued, loggedOut, sessionLast>>

vars == <<regVars, followVars, reviewVars, buildVars, sessionVars>>

\* what a handler of one subsystem leaves alone
notRegVars == <<followVars, reviewVars, buildVars, sessionVars>>
notFollowVars == <<regVars, reviewVars, buildVars, sessionVars>>
notReviewVars == <<regVars, followVars, buildVars, sessionVars>>
notBuildVars == <<regVars, followVars, reviewVars, sessionVars>>
notSessionVars == <<regVars, followVars, reviewVars, buildVars>>

\* ------------------------------------------------------------------------
\* Session tokens and the authentication middleware of the routers
\* ------------------------------------------------------------------------
NoToken == [kind |-> "none", id |-> NoId]
BadToken == [kind |-> "bad", id |-> NoId]
SignedToken(u) == [kind |-> "signed", id |-> u]

\* jwt.verify(token, secret): the payload of a validly signed token
JwtVerifies(token) == token.kind = "signed"

\* ensureAuthenticated: 401 without a token, 401 when verification throws,
\* else req.user = payload and next()
EnsureAuthenticated(token) ==
  IF token.kind = "none"
  THEN [ok |-> FALSE, status |-> 401, msg |-> "Token required", userId |-> NoId]
  ELSE IF ~JwtVerifies(token)
  THEN [ok |-> FALSE, status |-> 401, msg |-> "Invalid or expired token", userId |-> NoId]
  ELSE [ok |-> TRUE, status |-> 0, msg |-> "next", userId |-> token.id]

\* authenticateToken: 401 without a token, 403 when verification fails, else
\* req.user = user and next()
AuthenticateToken(token) ==
  IF token.kind = "none"
  THEN [ok |-> FALSE, status |-> 401, msg |-> "Token required", userId |-> NoId]
  ELSE IF ~JwtVerifies(token)
  THEN [ok |-> FALSE, status |-> 403, msg |-> "Invalid or expired token", userId |-> NoId]
  ELSE [ok |-> TRUE, status |-> 0, msg |-> "next", userId |-> token.id]

\* ------------------------------------------------------------------------
\* POST /api/register-event
\* ------------------------------------------------------------------------
RegRequests ==
  [userId : Users \cup {NoId}, eventId : Events, email : Emails,
   cars : SeqsUpTo(CarMakes, MaxCars)]

NoRegRequest == [userId |-> NoId, eventId |-> 1, email |-> "a@x", cars |-> <<>>]

\* a connection of the pool with no request on it
IdleConn ==
  [pc |-> "idle", req |-> NoRegRequest, inTxn |-> FALSE,
   pendRegs |-> {}, pendCars |-> <<>>, regId |-> 0, k |-> 0,
   failedAt |-> 0, resp |-> NoResp]

\* the unique key event_registrations.event_id_email_unique
PairIn(rows, eventId, email) ==
  \E r \in rows : r.event_id = eventId /\ r.email = email

RollbackOmitted(cn) == cn

\* connection.rollback(): the statements of the open transaction are dropped

Rollback(cn) ==
  [cn EXCEPT !.inTxn = FALSE, !.pendRegs = {}, !.pendCars = <<>>]

\* connection.release(): the request is over; the connection goes back to the
\* pool as it is, the request's locals are gone
Release(cn) ==
  [cn EXCEPT !.pc = "done", !.req = NoRegRequest, !.regId = 0, !.k = 0]

RegErrorMessageUntranslated(code, key) == MsgServerError

\* the message the catch block picks for a store error
RegErrorMessage(code, key) ==
  IF code = "ER_DUP_ENTRY"
  THEN IF key = "event_registrations.event_id_email_unique"
       THEN MsgAlreadyRegistered
       ELSE MsgDuplicateEntry
  ELSE MsgServerError

\* catch + finally: roll back, answer 500 with the chosen message, release
RegCatch(cn, code, key) ==
  Release([Rollback(cn) EXCEPT
             !.resp = [status |-> 500, msg |-> RegErrorMessage(code, key)]])

\* the rows of a transaction become the committed rows
CommitRegs(cn) == registrations \cup cn.pendRegs
CommitCars(cn) == registered_cars \o cn.pendCars

\* pool.getConnection(), beginTransaction(), the userId check
RegBegin(c) ==
  /\ regConn[c].pc \in {"idle", "done"}
  /\ \E rq \in RegRequests :
       LET cn == regConn[c]
           \* START TRANSACTION commits whatever the connection still holds
           started == [cn EXCEPT !.req = rq, !.inTxn = TRUE, !.pendRegs = {},
                                 !.pendCars = <<>>, !.regId = 0, !.k = 0,
                                 !.failedAt = 0]
       IN /\ registrations' = CommitRegs(cn)
          /\ registered_cars' = CommitCars(cn)
          /\ IF rq.userId = NoId
             THEN \* early return: the finally block releases the connection,
                  \* the transaction is neither committed nor rolled back
                  regConn' = [regConn EXCEPT ![c] =
                    Release([started EXCEPT
                      !.resp = [status |-> 400, msg |-> MsgUserIdMissing]])]
             ELSE regConn' = [regConn EXCEPT ![c] =
                    [started EXCEPT !.pc = "insertRegistration", !.resp = NoResp]]
  /\ UNCHANGED <<nextRegId, updConn, notRegVars>>

\* INSERT INTO event_registrations
RegInsertRegistration(c) ==
  LET cn == regConn[c]
      rq == cn.req
  IN /\ cn.pc = "insertRegistration"
     \* the insert waits for another transaction holding the same key
     /\ \A d \in Conns \ {c} :
          ~PairIn(regConn[d].pendRegs, rq.eventId, rq.email)
     /\ IF PairIn(registrations, rq.eventId, rq.email)
        THEN /\ regConn' = [regConn EXCEPT ![c] =
                  RegCatch(cn, "ER_DUP_ENTRY",
                           "event_registrations.event_id_email_unique")]
             /\ UNCHANGED <<nextRegId, updConn, notRegVars>>
        ELSE /\ nextRegId <= MaxRegs
             /\ regConn' = [regConn EXCEPT ![c] =
                  [cn EXCEPT !.pc = IF Len(rq.cars) > 0 THEN "insertCar" ELSE "commit",
                             !.regId = nextRegId,
                             !.k = 1,
                             !.pendRegs = @ \cup
                               {[id |-> nextRegId, event_id |-> rq.eventId,
                                 user_id |-> rq.userId, email |-> rq.email,
                                 \* history: the car list the request asked for
                                 wanted |-> rq.cars]}]]
             /\ nextRegId' = nextRegId + 1
     /\ UNCHANGED <<registrations, registered_cars, updConn, notRegVars>>

\* INSERT INTO registered_cars, one car per step; the statement may fail
RegInsertCar(c) ==
  LET cn == regConn[c]
      rq == cn.req
  IN /\ cn.pc = "insertCar"
     /\ \E ok \in BOOLEAN :
          IF ok
          THEN regConn' = [regConn EXCEPT ![c] =
                 [cn EXCEPT !.pendCars =
                              Append(@, [registration_id |-> cn.regId,
                                         make |-> rq.cars[cn.k]]),
                            !.k = cn.k + 1,
                            !.pc = IF cn.k = Len(rq.cars) THEN "commit" ELSE "insertCar"]]
          ELSE regConn' = [regConn EXCEPT ![c] =
                 [RegCatch(cn, "ER_OTHER", "none") EXCEPT !.failedAt = cn.k]]
     /\ UNCHANGED <<registrations, registered_cars, nextRegId, updConn, notRegVars>>

\* connection.commit(), the success response, release
RegCommit(c) ==
  LET cn == regConn[c]
  IN /\ cn.pc = "commit"
     /\ registrations' = CommitRegs(cn)
     /\ registered_cars' = CommitCars(cn)
     /\ regConn' = [regConn EXCEPT ![c] =
          Release([cn EXCEPT !.inTxn = FALSE, !.pendRegs = {}, !.pendCars = <<>>,
                             !.resp = [status |-> 200, msg |-> MsgOk]])]
     /\ UNCHANGED <<nextRegId, updConn, notRegVars>>

\* SELECT * FROM registered_cars WHERE registration_id = ?
CarsOfId(id) ==
  SelectSeq(registered_cars, LAMBDA x : x.registration_id = id)

\* ---- PUT /api/update-event-registration/:registrationId
\* an entry of the cars array; complete: it has make, model and year
CarEntries == [make : {"m2"}, complete : BOOLEAN]

UpdRequests ==
  [token : {NoToken} \cup {SignedToken(u) : u \in Users},
   id : 1..MaxRegs, email : {"b@x"}, bodyOk : BOOLEAN,
   cars : SeqsUpTo(CarEntries, MaxCars)]

NoUpdRequest ==
  [token |-> NoToken, id |-> 1, email |-> "a@x", bodyOk |-> FALSE, cars |-> <<>>]

NoRegistration == [id |-> 0, event_id |-> 0, user_id |-> NoId, email |-> "", wanted |-> <<>>]

IdleUpd ==
  [pc |-> "idle", req |-> NoUpdRequest, row |-> NoRegistration, cars |-> <<>>, k |-> 0,
   status |-> 0, userId |-> NoId, id |-> 0]

\* SELECT user_id FROM event_registrations WHERE id = ?
RegistrationById(id) ==
  IF \E r \in registrations : r.id = id
  THEN CHOOSE r \in registrations : r.id = id
  ELSE NoRegistration

\* the response; finally: connection.release()
UpdFinish(rq, userId, status) ==
  [IdleUpd EXCEPT !.pc = "done", !.status = status, !.userId = userId, !.id = rq.id]

\* catch: rollback, 500; finally: release
UpdCatch ==
  updConn' = UpdFinish(updConn.req, AuthenticateToken(updConn.req.token).userId, 500)

\* authenticateToken, the checks of the body, getConnection, beginTransaction
\* and the ownership read
UpdBegin ==
  /\ updConn.pc \in {"idle", "done"}
  /\ \E rq \in UpdRequests :
       LET auth == AuthenticateToken(rq.token)
           row == RegistrationById(rq.id)
       IN updConn' =
            IF ~auth.ok THEN UpdFinish(rq, NoId, auth.status)
            ELSE IF ~rq.bodyOk THEN UpdFinish(rq, auth.userId, 400)
            ELSE IF row = NoRegistration THEN UpdFinish(rq, auth.userId, 404)
            ELSE IF row.user_id # auth.userId THEN UpdFinish(rq, auth.userId, 403)
            ELSE [IdleUpd EXCEPT !.pc = "updateRow", !.req = rq, !.row = row,
                                 !.cars = CarsOfId(rq.id), !.userId = auth.userId,
                                 !.id = rq.id]
  /\ UNCHANGED <<registrations, registered_cars, nextRegId, regConn, notRegVars>>

\* UPDATE event_registrations SET name = ?, email = ?, phone = ? WHERE id = ?
UpdRow ==
  /\ updConn.pc = "updateRow"
  /\ \E ok \in BOOLEAN :
       IF ok /\ ~\E r \in registrations :
                   r.id # updConn.id /\ r.event_id = updConn.row.event_id
                     /\ r.email = updConn.req.email
       THEN updConn' = [updConn EXCEPT !.pc = "deleteCars",
                                       !.row.email = updConn.req.email]
       ELSE UpdCatch
  /\ UNCHANGED <<registrations, registered_cars, nextRegId, regConn, notRegVars>>

\* DELETE FROM registered_cars WHERE registration_id = ?
UpdDeleteCars ==
  /\ updConn.pc = "deleteCars"
  /\ \E ok \in BOOLEAN :
       IF ok
       THEN updConn' = [updConn EXCEPT
                          !.pc = IF Len(updConn.req.cars) > 0 THEN "insertCar" ELSE "commit",
                          !.cars = <<>>, !.k = 1]
       ELSE UpdCatch
  /\ UNCHANGED <<registrations, registered_cars, nextRegId, regConn, notRegVars>>

\* one entry of the cars loop: an entry without make, model or year is
\* skipped, any other is inserted into registered_cars
UpdInsertCar ==
  LET car == updConn.req.cars[updConn.k]
      next == IF updConn.k = Len(updConn.req.cars) THEN "commit" ELSE "insertCar"
  IN /\ updConn.pc = "insertCar"
     /\ \E ok \in BOOLEAN :
          IF ~car.complete
          THEN updConn' = [updConn EXCEPT !.k = @ + 1, !.pc = next]
          ELSE IF ok
          THEN updConn' = [updConn EXCEPT
                             !.cars = Append(@, [registration_id |-> updConn.id,
                                                 make |-> car.make]),
                             !.k = @ + 1, !.pc = next]
          ELSE UpdCatch
     /\ UNCHANGED <<registrations, registered_cars, nextRegId, regConn, notRegVars>>

\* connection.commit(), the success response, release
UpdCommit ==
  /\ updConn.pc = "commit"
  /\ \E ok \in BOOLEAN :
       IF ok
       THEN /\ registrations' =
                 {r \in registrations : r.id # updConn.id} \cup {updConn.row}
            /\ registered_cars' =
                 SelectSeq(registered_cars, LAMBDA x : x.registration_id # updConn.id)
                   \o updConn.cars
            /\ updConn' = UpdFinish(updConn.req, updConn.userId, 200)
       ELSE /\ UpdCatch
            /\ UNCHANGED <<registrations, registered_cars>>
  /\ UNCHANGED <<nextRegId, regConn, notRegVars>>

RegInit ==
  /\ registrations = {}
  /\ registered_cars = <<>>
  /\ nextRegId = 1
  /\ regConn = [c \in Conns |-> IdleConn]
  /\ updConn = IdleUpd

\* registrations are created on one connection and updated
RegUpdateNext ==
  \/ RegBegin(1)
  \/ RegInsertRegistration(1)
  \/ RegInsertCar(1)
  \/ RegCommit(1)
  \/ UpdBegin
  \/ UpdRow
  \/ UpdDeleteCars
  \/ UpdInsertCar
  \/ UpdCommit

RegNext ==
  \E c \in Conns :
    \/ RegBegin(c)
    \/ RegInsertRegistration(c)
    \/ RegInsertCar(c)
    \/ RegCommit(c)

\* ------------------------------------------------------------------------
\* Claims about event registrations
\* ------------------------------------------------------------------------
CarsOfRegistration(id) ==
  SelectSeq(registered_cars, LAMBDA x : x.registration_id = id)

\* C1: POST /register-event is atomic.  For every registration id the store
\* ever handed out, in every state (also after the insert of any car k of
\* the request failed), the committed rows are either the registration row
\* together with one car row per car of the request, or neither the
\* registration row nor any car row of that id; a request that is still
\* running has nothing committed.
RegisterEventAtomic ==
  /\ \A id \in 1..(nextRegId - 1) :
       LET rows == {r \in registrations : r.id = id}
           cs == CarsOfRegistration(id)
       IN \/ rows = {} /\ cs = <<>>
          \/ \E r \in rows :
               /\ rows = {r}
               /\ Len(cs) = Len(r.wanted)
               /\ \A i \in 1..Len(cs) : cs[i].make = r.wanted[i]
  /\ \A c \in Conns :
       regConn[c].pc \in {"insertCar", "commit"} =>
         /\ ~\E r \in registrations : r.id = regConn[c].regId
         /\ CarsOfRegistration(regConn[c].regId) = <<>>

\* a request whose last car insert failed after the registration row and the
\* earlier car were inserted, and nothing of it is in the store
RegisterEventAtomicWitness ==
  \E c \in Conns :
    /\ regConn[c].pc = "done"
    /\ regConn[c].failedAt >= 2
    /\ regConn[c].resp.status = 500
    /\ nextRegId = 2
    /\ registrations = {}
    /\ registered_cars = <<>>

\* C3: a POST /register-event (carrying a user id) whose (event, email) pair
\* already has a registration is answered with the 'already registered'
\* failure by its insert, and that step leaves the committed registration
\* rows and car rows exactly as they were.
RegisterEventDuplicateRejected ==
  [][\A c \in Conns :
      ( /\ regConn[c].pc = "insertRegistration"
        /\ regConn'[c] # regConn[c]
        /\ PairIn(registrations, regConn[c].req.eventId, regConn[c].req.email) )
      => /\ regConn'[c].pc = "done"
         /\ regConn'[c].resp.status = 500
         /\ regConn'[c].resp.msg = MsgAlreadyRegistered
         /\ regConn'[c].pendRegs = {}
         /\ registrations' = registrations
         /\ registered_cars' = registered_cars]_vars

\* a second registration for a registered pair was refused and the first
\* registration, with its car, is still the only one
RegisterEventDuplicateWitness ==
  \E c \in Conns :
    /\ regConn[c].pc = "done"
    /\ regConn[c].resp.msg = MsgAlreadyRegistered
    /\ Cardinality(registrations) = 1
    /\ Len(registered_cars) = 1

\* ------------------------------------------------------------------------
\* POST /api/follows, DELETE /api/follows/:followedId
\* ------------------------------------------------------------------------
Members == {1, 2, 3}
FollowTokens == {NoToken, BadToken} \cup {SignedToken(u) : u \in Members}

\* a followedId as a request carries it: a JSON number, or a string of digits
\* (n is the number the digits denote); number 0 stands for a missing id
FollowedIds ==
  [kind : {"number"}, n : Members \cup {NoId}] \cup [kind : {"string"}, n : Members]

\* !followedId
Falsy(v) == v.kind = "number" /\ v.n = 0

\* parseInt(followedId)
ParseInt(v) == v.n

\* the INT column value the store keeps for a bound parameter
SqlInt(v) == v.n

IsSelfFollowNoParse(followerId, followedId) ==
  followedId.kind = "number" /\ followedId.n = followerId

\* followerId === parseInt(followedId)
IsSelfFollow(followerId, followedId) ==
  followerId = ParseInt(followedId)

\* the unique key of follows on (follower_id, followed_id)
EdgeIn(rows, a, b) ==
  \E i \in 1..Len(rows) : rows[i].follower_id = a /\ rows[i].followed_id = b

FollowResponse(op, auth, v, status, msg) ==
  [op |-> op, userId |-> auth.userId, kind |-> v.kind, n |-> v.n,
   status |-> status, msg |-> msg]

\* POST /api/follows
Follow ==
  /\ UNCHANGED notFollowVars
  /\ \E token \in FollowTokens, followedId \in FollowedIds :
    LET auth == EnsureAuthenticated(token)
        followerId == auth.userId
    IN IF ~auth.ok
       THEN /\ followLast' = FollowResponse("follow", auth, followedId, auth.status, auth.msg)
            /\ UNCHANGED follows
       ELSE IF Falsy(followedId)
       THEN /\ followLast' = FollowResponse("follow", auth, followedId, 400,
                                            "followedId is required.")
            /\ UNCHANGED follows
       ELSE IF IsSelfFollow(followerId, followedId)
       THEN /\ followLast' = FollowResponse("follow", auth, followedId, 400,
                                            "You cannot follow yourself.")
            /\ UNCHANGED follows
       ELSE IF EdgeIn(follows, followerId, SqlInt(followedId))
       THEN \* ER_DUP_ENTRY
            /\ followLast' = FollowResponse("follow", auth, followedId, 409,
                                            "You are already following this user.")
            /\ UNCHANGED follows
       ELSE /\ follows' = Append(follows, [follower_id |-> followerId,
                                           followed_id |-> SqlInt(followedId)])
            /\ followLast' = FollowResponse("follow", auth, followedId, 201,
                                            "Successfully followed user.")

\* DELETE /api/follows/:followedId
Unfollow ==
  /\ UNCHANGED notFollowVars
  /\ \E token \in FollowTokens, followedId \in [kind : {"string"}, n : Members] :
    LET auth == EnsureAuthenticated(token)
        followerId == auth.userId
        kept == SelectSeq(follows, LAMBDA r :
                  ~(r.follower_id = followerId /\ r.followed_id = SqlInt(followedId)))
    IN IF ~auth.ok
       THEN /\ followLast' = FollowResponse("unfollow", auth, followedId, auth.status, auth.msg)
            /\ UNCHANGED follows
       ELSE IF Len(kept) = Len(follows)
       THEN \* affectedRows === 0
            /\ followLast' = FollowResponse("unfollow", auth, followedId, 404,
                                            "You are not following this user or user not found.")
            /\ UNCHANGED follows
       ELSE /\ follows' = kept
            /\ followLast' = FollowResponse("unfollow", auth, followedId, 200,
                                            "Successfully unfollowed user.")

FollowInit ==
  /\ follows = <<>>
  /\ followLast = FollowResponse("none", EnsureAuthenticated(NoToken),
                                 [kind |-> "number", n |-> NoId], 0, "none")

FollowNext ==
  \/ Follow
  \/ Unfollow

Procs == {1, 2}
Businesses == {1}
ReviewTokens == {NoToken, SignedToken(1)}

\* a rating as the JSON body carries it: a number, written in tenths
\* (25 is 2.5), or a string that is not a number
Ratings ==
  [kind : {"number"}, x10 : {-10, 0, 10, 25, 50, 60}] \cup [kind : {"text"}, x10 : {0}]

\* !rating
RatingFalsy(r) == r.kind = "number" /\ r.x10 = 0

\* rating < 1 || rating > 5: a string that is no number converts to NaN and
\* both comparisons are false
RatingOutOfRange(r) == r.kind = "number" /\ (r.x10 < 10 \/ r.x10 > 50)

\* the two validation returns of both review handlers
RatingRejected(userId, r) ==
  userId = NoId \/ RatingFalsy(r) \/ RatingOutOfRange(r)

ValidationMessage(userId, r) ==
  IF userId = NoId \/ RatingFalsy(r)
  THEN "User ID and rating are required."
  ELSE "Rating must be between 1 and 5."

ReviewRequests ==
  [op : {"create", "update"}, token : ReviewTokens, id : 1..MaxReviews,
   userId : Users \cup {NoId}, rating : Ratings]

NoReviewRequest ==
  [op |-> "none", token |-> NoToken, id |-> 1, userId |-> NoId,
   rating |-> [kind |-> "number", x10 |-> 0]]

IdleProc == [pc |-> "idle", req |-> NoReviewRequest]

ReviewRowsOf(businessId, userId) ==
  {i \in 1..Len(business_reviews) :
     business_reviews[i].business_id = businessId /\ business_reviews[i].user_id = userId}

ReviewIndex(id) ==
  {i \in 1..Len(business_reviews) : business_reviews[i].id = id}

ReviewFinish(p, rq, status, msg) ==
  /\ reviewProc' = [reviewProc EXCEPT ![p] = IdleProc]
  /\ reviewLast' = [op |-> rq.op, status |-> status, msg |-> msg]

\* POST: the validation and the duplicate pre-check (SELECT id ...)
ReviewCreateCheck(p) ==
  /\ reviewProc[p].pc = "idle"
  /\ \E rq \in ReviewRequests :
       /\ rq.op = "create"
       /\ rq.id \in Businesses
       /\ rq.token = NoToken
       /\ IF RatingRejected(rq.userId, rq.rating)
          THEN ReviewFinish(p, rq, 400, ValidationMessage(rq.userId, rq.rating))
          ELSE IF ReviewRowsOf(rq.id, rq.userId) # {}
          THEN ReviewFinish(p, rq, 409, "You have already reviewed this business.")
          ELSE /\ reviewProc' = [reviewProc EXCEPT ![p] = [pc |-> "insert", req |-> rq]]
               /\ UNCHANGED reviewLast
  /\ UNCHANGED <<business_reviews, nextReviewId, reviewUniqueKey, notReviewVars>>

\* POST: INSERT INTO business_reviews, the read-back and the 201 response;
\* a store error is answered by the catch block with 500
ReviewCreateInsert(p) ==
  LET rq == reviewProc[p].req
      row(stored) == [id |-> nextReviewId, business_id |-> rq.id, user_id |-> rq.userId,
                      rating |-> stored]
  IN /\ reviewProc[p].pc = "insert"
     /\ IF reviewUniqueKey /\ ReviewRowsOf(rq.id, rq.userId) # {}
        THEN \* ER_DUP_ENTRY
             /\ ReviewFinish(p, rq, 500, "Failed to submit review.")
             /\ UNCHANGED <<business_reviews, nextReviewId>>
        ELSE IF rq.rating.kind = "text"
        THEN \* a string that is no number in a numeric column: refused in
             \* strict SQL mode, stored as 0 otherwise
             \/ /\ ReviewFinish(p, rq, 500, "Failed to submit review.")
                /\ UNCHANGED <<business_reviews, nextReviewId>>
             \/ /\ nextReviewId <= MaxReviews
                /\ business_reviews' = Append(business_reviews, row(0))
                /\ nextReviewId' = nextReviewId + 1
                /\ ReviewFinish(p, rq, 201, "Review submitted successfully.")
        ELSE /\ nextReviewId <= MaxReviews
             /\ business_reviews' = Append(business_reviews, row(rq.rating.x10))
             /\ nextReviewId' = nextReviewId + 1
             /\ ReviewFinish(p, rq, 201, "Review submitted successfully.")
     /\ UNCHANGED <<reviewUniqueKey, notReviewVars>>

\* PUT: the validation and the owner check (SELECT user_id ...); the user id
\* compared with the row's owner is the one in the request body
ReviewUpdateCheck(p) ==
  /\ reviewProc[p].pc = "idle"
  /\ \E rq \in ReviewRequests :
       /\ rq.op = "update"
       /\ IF RatingRejected(rq.userId, rq.rating)
          THEN ReviewFinish(p, rq, 400, ValidationMessage(rq.userId, rq.rating))
          ELSE IF ReviewIndex(rq.id) = {}
          THEN ReviewFinish(p, rq, 404, "Review not found.")
          ELSE IF \E i \in ReviewIndex(rq.id) : business_reviews[i].user_id # rq.userId
          THEN ReviewFinish(p, rq, 403, "You are not authorized to edit this review.")
          ELSE /\ reviewProc' = [reviewProc EXCEPT ![p] = [pc |-> "update", req |-> rq]]
               /\ UNCHANGED reviewLast
  /\ UNCHANGED <<business_reviews, nextReviewId, reviewUniqueKey, notReviewVars>>

\* PUT: UPDATE business_reviews SET rating (the comment column, which no
\* check reads, is left out of the rows), the read-back and the
\* 200 response
ReviewUpdateWrite(p) ==
  LET rq == reviewProc[p].req
      updated(stored) ==
        [i \in 1..Len(business_reviews) |->
           IF business_reviews[i].id = rq.id
           THEN [business_reviews[i] EXCEPT !.rating = stored]
           ELSE business_reviews[i]]
  IN /\ reviewProc[p].pc = "update"
     /\ IF rq.rating.kind = "text"
        THEN \/ /\ ReviewFinish(p, rq, 500, "Failed to update review.")
                /\ UNCHANGED business_reviews
             \/ /\ business_reviews' = updated(0)
                /\ ReviewFinish(p, rq, 200, "Review updated successfully.")
        ELSE /\ business_reviews' = updated(rq.rating.x10)
             /\ ReviewFinish(p, rq, 200, "Review updated successfully.")
     /\ UNCHANGED <<nextReviewId, reviewUniqueKey, notReviewVars>>

ReviewInit ==
  /\ business_reviews = <<>>
  /\ nextReviewId = 1
  /\ reviewUniqueKey \in BOOLEAN
  /\ reviewProc = [p \in Procs |-> IdleProc]
  /\ reviewLast = [op |-> "none", status |-> 0, msg |-> "none"]

ReviewNext ==
  \E p \in Procs :
    \/ ReviewCreateCheck(p)
    \/ ReviewCreateInsert(p)
    \/ ReviewUpdateCheck(p)
    \/ ReviewUpdateWrite(p)

\* ------------------------------------------------------------------------
\* Claims about business reviews
\* ------------------------------------------------------------------------
\* the identity a request's session token carries, if it carries a valid one
Principal(token) == IF JwtVerifies(token) THEN token.id ELSE NoId

ReviewOwner(id) ==
  {business_reviews[i].user_id : i \in ReviewIndex(id)}

\* an integer from 1 to 5
IsIntegerRating(r) == r.kind = "number" /\ r.x10 \in {10, 20, 30, 40, 50}

\* C4: in every reachable state there is at most one review row per
\* (business, user) pair, and an insert attempted for a pair that already has
\* a row is answered with the 'duplicate review' error (409) and adds no
\* row, for every interleaving of two concurrent POST requests.
ReviewOnePerBusinessAndUser ==
  /\ [](\A b \in Businesses, u \in Users : Cardinality(ReviewRowsOf(b, u)) <= 1)
  /\ [][\A p \in Procs :
          ( /\ reviewProc[p].pc = "insert"
            /\ reviewProc'[p].pc = "idle"
            /\ ReviewRowsOf(reviewProc[p].req.id, reviewProc[p].req.userId) # {} )
          => (reviewLast'.status = 409 /\ business_reviews' = business_reviews)]_vars

\* C6: a step of PUT /reviews/:id changes a review row only when the
\* request's session token is valid and carries the id of the review's owner.
ReviewChangedOnlyByAuthenticatedOwner ==
  [][\A p \in Procs :
      ( /\ reviewProc[p].pc = "update"
        /\ reviewProc'[p].pc = "idle"
        /\ business_reviews' # business_reviews )
      => /\ Principal(reviewProc[p].req.token) # NoId
         /\ ReviewOwner(reviewProc[p].req.id) = {Principal(reviewProc[p].req.token)}]_vars

\* C10: a review creation or update whose rating is not an integer from 1 to
\* 5 never gets past the validation: no such request reaches its INSERT or
\* UPDATE, so it is answered 400 and no row is inserted or changed by it, and
\* every stored rating is an integer from 1 to 5.
ReviewRatingValidated ==
  /\ [][\A p \in Procs :
          ( /\ reviewProc[p].pc \in {"insert", "update"}
            /\ reviewProc'[p].pc = "idle"
            /\ ~IsIntegerRating(reviewProc[p].req.rating) )
          => (reviewLast'.status = 400 /\ business_reviews' = business_reviews)]_vars
  /\ [](\A i \in 1..Len(business_reviews) :
          business_reviews[i].rating \in {10, 20, 30, 40, 50})

\* ------------------------------------------------------------------------
\* /api/builds: POST /, PUT /:id, DELETE /:id
\* ------------------------------------------------------------------------
BuildTokens == {NoToken} \cup {SignedToken(u) : u \in Users}
BuildIds == 1..MaxBuilds
\* a NULL image column
NullUrl == "NULL"
NoBuild ==
  [user_id |-> NoId, car_name |-> "", cover_image |-> NullUrl, cover_image2 |-> NullUrl]

NoWork == [build |-> NoBuild, gallery |-> <<>>, mods |-> <<>>]
NoBuildRequest == [op |-> "none", token |-> NoToken]
IdleBuildConn ==
  [pc |-> "idle", req |-> NoBuildRequest, id |-> 0, work |-> NoWork, k |-> 0, imgIdx |-> 0]

PutPcs ==
  {"putScalars", "putCovers", "putGalleryDelete", "putGalleryInsert",
   "putModsDelete", "putModInsert", "putCommit"}
DeletePcs == {"deleteMods", "deleteGallery", "deleteBuild", "deleteCommit"}

NoLockHolders(b) == {}

\* SELECT ... FOR UPDATE: the transactions that hold the row lock of build b
LockHolders(b) ==
  {c \in Conns : buildConn[c].pc \in PutPcs \cup DeletePcs /\ buildConn[c].id = b}

\* array[i] || null, for the 0-based index i - 1
ItemOrNull(seq, i) == IF i \in 1..Len(seq) THEN seq[i] ELSE NullUrl

\* how many gallery rows and mod rows build b has
PriorCounts(b) == <<Len(build_gallery[b]), Len(build_mods[b])>>

\* the response, and the slot is free again.  prior is history: the row counts
\* a successful transaction found
BuildFinish(c, status) ==
  /\ buildLast' = [op |-> buildConn[c].req.op,
                   userId |-> EnsureAuthenticated(buildConn[c].req.token).userId,
                   id |-> buildConn[c].id, status |-> status,
                   prior |-> IF status = 200
                             THEN PriorCounts(buildConn[c].id) ELSE <<0, 0>>]
  /\ buildConn' = [buildConn EXCEPT ![c] = IdleBuildConn]

\* a request answered before it touched the store
BuildRefuse(c, rq, id, status) ==
  /\ buildLast' = [op |-> rq.op, userId |-> EnsureAuthenticated(rq.token).userId,
                   id |-> id, status |-> status, prior |-> <<0, 0>>]
  /\ UNCHANGED buildConn

BuildGoto(c, cn, pc) ==
  /\ buildConn' = [buildConn EXCEPT ![c] = [cn EXCEPT !.pc = pc]]
  /\ UNCHANGED buildLast

\* ---- POST /api/builds: every statement is a pool.execute of its own
PostAfterGallery(rq) ==
  IF rq.modsJson = "object" THEN "throw"
  ELSE IF Len(rq.mods) > 0 THEN "postMods" ELSE "created"

PostAfterBuild(rq) ==
  IF Len(rq.gallery) > 0 THEN "postGallery" ELSE PostAfterGallery(rq)

PostContinue(c, cn, target) ==
  IF target = "throw"
  THEN \* parsedModsArray.entries is not a function: the catch answers 500
       BuildFinish(c, 500)
  ELSE IF target = "created"
  THEN BuildFinish(c, 201)
  ELSE BuildGoto(c, [cn EXCEPT !.k = 1], target)

\* ensureAuthenticated, JSON.parse(mods), INSERT INTO builds
PostBuild(c, Reqs) ==
  /\ buildConn[c].pc = "idle"
  /\ \E rq \in Reqs :
       LET auth == EnsureAuthenticated(rq.token)
           cn == [IdleBuildConn EXCEPT !.req = rq, !.id = nextBuildId]
       IN IF ~auth.ok
          THEN /\ BuildRefuse(c, rq, 0, auth.status)
               /\ UNCHANGED <<builds, nextBuildId>>
          ELSE IF rq.modsJson = "invalid"
          THEN /\ BuildRefuse(c, rq, 0, 400)
               /\ UNCHANGED <<builds, nextBuildId>>
          ELSE /\ nextBuildId <= MaxBuilds
               /\ builds' = [builds EXCEPT ![nextBuildId] =
                    [user_id |-> auth.userId, car_name |-> rq.car_name,
                     cover_image |-> ItemOrNull(rq.covers, 1),
                     cover_image2 |-> ItemOrNull(rq.covers, 2)]]
               /\ nextBuildId' = nextBuildId + 1
               /\ IF PostAfterBuild(rq) \in {"throw", "created"}
                  THEN /\ buildLast' = [op |-> "post", userId |-> auth.userId,
                                        id |-> nextBuildId,
                                        status |-> IF PostAfterBuild(rq) = "throw"
                                                   THEN 500 ELSE 201,
                                        prior |-> <<0, 0>>]
                       /\ UNCHANGED buildConn
                  ELSE BuildGoto(c, [cn EXCEPT !.k = 1], PostAfterBuild(rq))
  /\ UNCHANGED <<build_gallery, build_mods, notBuildVars>>

\* INSERT INTO build_gallery, one file per step.  The insert waits while a
\* transaction holds the build's rows; it fails when the statement fails or
\* the build row is gone
PostGallery(c) ==
  LET cn == buildConn[c]
      rq == cn.req
  IN /\ cn.pc = "postGallery"
     /\ LockHolders(cn.id) = {}
     /\ \E ok \in BOOLEAN :
          IF ok /\ builds[cn.id] # NoBuild
          THEN /\ build_gallery' = [build_gallery EXCEPT ![cn.id] = Append(@, rq.gallery[cn.k])]
               /\ IF cn.k < Len(rq.gallery)
                  THEN BuildGoto(c, [cn EXCEPT !.k = cn.k + 1], "postGallery")
                  ELSE PostContinue(c, cn, PostAfterGallery(rq))
          ELSE /\ BuildFinish(c, 500)
               /\ UNCHANGED build_gallery
     /\ UNCHANGED <<builds, build_mods, nextBuildId, notBuildVars>>

\* INSERT INTO build_mods, one mod per step; mod i takes the i-th uploaded
\* mod image
PostMod(c) ==
  LET cn == buildConn[c]
      rq == cn.req
  IN /\ cn.pc = "postMods"
     /\ LockHolders(cn.id) = {}
     /\ \E ok \in BOOLEAN :
          IF ok /\ builds[cn.id] # NoBuild
          THEN /\ build_mods' = [build_mods EXCEPT ![cn.id] =
                    Append(@, [mod_name |-> rq.mods[cn.k].name,
                               image_url |-> ItemOrNull(rq.modFiles, cn.k)])]
               /\ IF cn.k < Len(rq.mods)
                  THEN BuildGoto(c, [cn EXCEPT !.k = cn.k + 1], "postMods")
                  ELSE BuildFinish(c, 201)
          ELSE /\ BuildFinish(c, 500)
               /\ UNCHANGED build_mods
     /\ UNCHANGED <<builds, build_gallery, nextBuildId, notBuildVars>>

\* ---- PUT /api/builds/:id: one transaction on a dedicated connection
\* image_url NOT IN (keepGalleryArr.length ? keepGalleryArr : ['__NONE__'])
KeepList(keep) == IF keep = {} THEN {"__NONE__"} ELSE keep

GalleryAfterDeleteUnlessEmpty(rows, keep) ==
  IF keep = {} THEN rows ELSE SelectSeq(rows, LAMBDA u : u \in keep)

\* the gallery rows the DELETE ... NOT IN leaves
GalleryAfterDelete(rows, keep) ==
  SelectSeq(rows, LAMBDA u : u \in KeepList(keep))

ModsAfterDeleteNone(rows) == rows

\* the mod rows DELETE FROM build_mods WHERE build_id = ? leaves
ModsAfterDelete(rows) == <<>>

\* the image of a mod: the next unconsumed upload when the mod is flagged and
\* one is left, else the mod's own reference when it is not flagged, else NULL
ModImage(m, files, imgIdx) ==
  IF m.hasImage /\ imgIdx \in 1..Len(files) THEN files[imgIdx]
  ELSE IF ~m.hasImage /\ m.image_url # NullUrl THEN m.image_url
  ELSE NullUrl

ModImageNeverConsumed(m, files, imgIdx) == FALSE

\* imgIdx++ happens exactly when the upload at imgIdx was taken
ModImageConsumed(m, files, imgIdx) ==
  m.hasImage /\ imgIdx \in 1..Len(files)

NotOwnerMissingOnly(ownerRows, userId) == ownerRows = NoBuild

NotOwnerForeignOnly(ownerRows, userId) ==
  ownerRows # NoBuild /\ ownerRows.user_id # userId

\* !ownerRows.length || ownerRows[0].user_id !== userId
NotOwner(ownerRows, userId) ==
  ownerRows = NoBuild \/ ownerRows.user_id # userId

\* conn.rollback() itself rejects: the catch block throws before
\* conn.release() and before any response; the request is over and its
\* connection is never returned to the pool
BuildLeak(c) ==
  /\ buildConn' = [buildConn EXCEPT ![c] = [IdleBuildConn EXCEPT !.pc = "leaked"]]
  /\ UNCHANGED buildLast

\* the catch block: rollback, release, the error response
BuildCatch(c, status) ==
  \E rollbackOk \in BOOLEAN :
    IF rollbackOk THEN BuildFinish(c, status) ELSE BuildLeak(c)

PutCatchUnreported(c) == BuildFinish(c, 200)

\* the catch block for an error that is not NOT_OWNER
PutCatch(c) == BuildCatch(c, 500)

\* UPDATE builds SET ... WHERE id = ? changes the row with that id, if any
UpdateBuildRow(row, changed) == IF row = NoBuild THEN NoBuild ELSE changed

\* one statement of the transaction: it fails, or leaves the uncommitted
\* rows as given and goes on
TxnStatement(c, cn, pc) ==
  \E ok \in BOOLEAN :
    IF ok THEN BuildGoto(c, cn, pc) ELSE PutCatch(c)

\* ensureAuthenticated, the JSON payloads, getConnection, beginTransaction
PutBegin(c, Reqs) ==
  /\ buildConn[c].pc = "idle"
  /\ \E rq \in Reqs :
       LET auth == EnsureAuthenticated(rq.token)
       IN IF ~auth.ok
          THEN BuildRefuse(c, rq, rq.id, auth.status)
          ELSE IF ~rq.jsonOk
          THEN BuildRefuse(c, rq, rq.id, 400)
          ELSE /\ Len(build_gallery[rq.id]) + Len(rq.galleryFiles) <= MaxGallery
               /\ BuildGoto(c, [IdleBuildConn EXCEPT !.req = rq, !.id = rq.id],
                            "putSelect")
  /\ UNCHANGED <<builds, build_gallery, build_mods, nextBuildId, notBuildVars>>

\* SELECT user_id FROM builds WHERE id = ? FOR UPDATE and the ownership
\* check.  The read waits while another transaction holds the lock of the
\* row; it then sees the committed rows
TxnSelectForUpdate(c, pc) ==
  LET cn == buildConn[c]
      row == builds[cn.id]
  IN /\ row # NoBuild => LockHolders(cn.id) = {}
     /\ IF NotOwner(row, EnsureAuthenticated(cn.req.token).userId)
        THEN \* throw NOT_OWNER: rollback, release, 403
             BuildCatch(c, 403)
        ELSE BuildGoto(c, [cn EXCEPT
               !.work = [build |-> row, gallery |-> build_gallery[cn.id],
                         mods |-> build_mods[cn.id]]], pc)

PutSelect(c) ==
  /\ buildConn[c].pc = "putSelect"
  /\ TxnSelectForUpdate(c, "putScalars")
  /\ UNCHANGED <<builds, build_gallery, build_mods, nextBuildId, notBuildVars>>

\* UPDATE builds SET ownership_status, car_name, model, body_style, description
PutScalars(c) ==
  LET cn == buildConn[c]
  IN /\ cn.pc = "putScalars"
     /\ TxnStatement(c, [cn EXCEPT !.work.build =
                            UpdateBuildRow(@, [@ EXCEPT !.car_name = cn.req.car_name])],
                     "putCovers")
     /\ UNCHANGED <<builds, build_gallery, build_mods, nextBuildId, notBuildVars>>

\* UPDATE builds SET cover_image, cover_image2: the first two of the kept
\* covers followed by the uploaded ones
PutCovers(c) ==
  LET cn == buildConn[c]
      allCovers == cn.req.keepCovers \o cn.req.coverFiles
  IN /\ cn.pc = "putCovers"
     /\ TxnStatement(c, [cn EXCEPT !.work.build =
                            UpdateBuildRow(@, [@ EXCEPT
                              !.cover_image = ItemOrNull(allCovers, 1),
                              !.cover_image2 = ItemOrNull(allCovers, 2)])],
                     "putGalleryDelete")
     /\ UNCHANGED <<builds, build_gallery, build_mods, nextBuildId, notBuildVars>>

\* DELETE FROM build_gallery WHERE build_id = ? AND image_url NOT IN (?)
PutGalleryDelete(c) ==
  LET cn == buildConn[c]
  IN /\ cn.pc = "putGalleryDelete"
     /\ TxnStatement(c, [cn EXCEPT !.work.gallery =
                                     GalleryAfterDelete(@, cn.req.keepGallery)],
                     IF Len(cn.req.galleryFiles) > 0
                     THEN "putGalleryInsert" ELSE "putModsDelete")
     /\ UNCHANGED <<builds, build_gallery, build_mods, nextBuildId, notBuildVars>>

\* INSERT INTO build_gallery (build_id, image_url) VALUES ?: all uploads at once
PutGalleryInsert(c) ==
  LET cn == buildConn[c]
  IN /\ cn.pc = "putGalleryInsert"
     /\ TxnStatement(c, [cn EXCEPT !.work.gallery = @ \o cn.req.galleryFiles],
                     "putModsDelete")
     /\ UNCHANGED <<builds, build_gallery, build_mods, nextBuildId, notBuildVars>>

\* DELETE FROM build_mods WHERE build_id = ?; let imgIdx = 0
PutModsDelete(c) ==
  LET cn == buildConn[c]
  IN /\ cn.pc = "putModsDelete"
     /\ TxnStatement(c, [cn EXCEPT !.work.mods = ModsAfterDelete(@), !.k = 1, !.imgIdx = 1],
                     IF Len(cn.req.mods) > 0 THEN "putModInsert" ELSE "putCommit")
     /\ UNCHANGED <<builds, build_gallery, build_mods, nextBuildId, notBuildVars>>

\* INSERT INTO build_mods, one mod of modsArr per step
PutModInsert(c) ==
  LET cn == buildConn[c]
      rq == cn.req
      m == rq.mods[cn.k]
  IN /\ cn.pc = "putModInsert"
     /\ TxnStatement(c,
          [cn EXCEPT !.work.mods =
                       Append(@, [mod_name |-> m.name,
                                  image_url |-> ModImage(m, rq.modFiles, cn.imgIdx)]),
                     !.imgIdx = IF ModImageConsumed(m, rq.modFiles, cn.imgIdx)
                                THEN cn.imgIdx + 1 ELSE cn.imgIdx,
                     !.k = cn.k + 1],
          IF cn.k < Len(rq.mods) THEN "putModInsert" ELSE "putCommit")
     /\ UNCHANGED <<builds, build_gallery, build_mods, nextBuildId, notBuildVars>>

\* conn.commit(): the rows of the transaction become the committed rows;
\* release; 200.  A failing commit goes to the catch block
TxnCommit(c) ==
  LET cn == buildConn[c]
  IN /\ \E ok \in BOOLEAN :
          IF ok
          THEN /\ builds' = [builds EXCEPT ![cn.id] = cn.work.build]
               /\ build_gallery' = [build_gallery EXCEPT ![cn.id] = cn.work.gallery]
               /\ build_mods' = [build_mods EXCEPT ![cn.id] = cn.work.mods]
               /\ BuildFinish(c, 200)
          ELSE /\ PutCatch(c)
               /\ UNCHANGED <<builds, build_gallery, build_mods>>
     /\ UNCHANGED <<nextBuildId, notBuildVars>>

PutCommit(c) ==
  /\ buildConn[c].pc = "putCommit"
  /\ TxnCommit(c)

\* ---- DELETE /api/builds/:id
\* ensureAuthenticated, getConnection, beginTransaction
DeleteBegin(c, Reqs) ==
  /\ buildConn[c].pc = "idle"
  /\ \E rq \in Reqs :
       LET auth == EnsureAuthenticated(rq.token)
       IN IF ~auth.ok
          THEN BuildRefuse(c, rq, rq.id, auth.status)
          ELSE BuildGoto(c, [IdleBuildConn EXCEPT !.req = rq, !.id = rq.id],
                         "deleteSelect")
  /\ UNCHANGED <<builds, build_gallery, build_mods, nextBuildId, notBuildVars>>

\* SELECT user_id FROM builds WHERE id = ? FOR UPDATE and the ownership check
DeleteSelect(c) ==
  /\ buildConn[c].pc = "deleteSelect"
  /\ TxnSelectForUpdate(c, "deleteMods")
  /\ UNCHANGED <<builds, build_gallery, build_mods, nextBuildId, notBuildVars>>

\* DELETE FROM build_mods WHERE build_id = ?
DeleteMods(c) ==
  LET cn == buildConn[c]
  IN /\ cn.pc = "deleteMods"
     /\ TxnStatement(c, [cn EXCEPT !.work.mods = <<>>], "deleteGallery")
     /\ UNCHANGED <<builds, build_gallery, build_mods, nextBuildId, notBuildVars>>

\* DELETE FROM build_gallery WHERE build_id = ?
DeleteGallery(c) ==
  LET cn == buildConn[c]
  IN /\ cn.pc = "deleteGallery"
     /\ TxnStatement(c, [cn EXCEPT !.work.gallery = <<>>], "deleteBuild")
     /\ UNCHANGED <<builds, build_gallery, build_mods, nextBuildId, notBuildVars>>

\* DELETE FROM builds WHERE id = ?
DeleteBuild(c) ==
  LET cn == buildConn[c]
  IN /\ cn.pc = "deleteBuild"
     /\ TxnStatement(c, [cn EXCEPT !.work.build = NoBuild], "deleteCommit")
     /\ UNCHANGED <<builds, build_gallery, build_mods, nextBuildId, notBuildVars>>

DeleteCommit(c) ==
  /\ buildConn[c].pc = "deleteCommit"
  /\ TxnCommit(c)

BuildInit ==
  /\ builds = [b \in BuildIds |-> NoBuild]
  /\ build_gallery = [b \in BuildIds |-> <<>>]
  /\ build_mods = [b \in BuildIds |-> <<>>]
  /\ nextBuildId = 1
  /\ buildConn = [c \in Conns |-> IdleBuildConn]
  /\ buildLast = [op |-> "none", userId |-> NoId, id |-> 0, status |-> 0,
                  prior |-> <<0, 0>>]

\* the handlers of /api/builds, for the request slots CS and the given requests
BuildNextOn(CS, Posts, Puts, Deletes) ==
  \E c \in CS :
    \/ PostBuild(c, Posts)
    \/ PostGallery(c)
    \/ PostMod(c)
    \/ PutBegin(c, Puts)
    \/ PutSelect(c)
    \/ PutScalars(c)
    \/ PutCovers(c)
    \/ PutGalleryDelete(c)
    \/ PutGalleryInsert(c)
    \/ PutModsDelete(c)
    \/ PutModInsert(c)
    \/ PutCommit(c)
    \/ DeleteBegin(c, Deletes)
    \/ DeleteSelect(c)
    \/ DeleteMods(c)
    \/ DeleteGallery(c)
    \/ DeleteBuild(c)
    \/ DeleteCommit(c)

\* ---- the requests of the specifications
Mod(name, hasImage, image_url) ==
  [name |-> name, hasImage |-> hasImage, image_url |-> image_url]

PostRequest(token, gallery, mods, modFiles, modsJson) ==
  [op |-> "post", token |-> token, car_name |-> "n1", covers |-> <<"c1">>,
   gallery |-> gallery, mods |-> mods, modFiles |-> modFiles, modsJson |-> modsJson]

PutRequest(token, id, jsonOk, car_name, keepCovers, coverFiles, keepGallery, galleryFiles, mods, modFiles) ==
  [op |-> "put", token |-> token, id |-> id, jsonOk |-> jsonOk, car_name |-> car_name,
   keepCovers |-> keepCovers, coverFiles |-> coverFiles, keepGallery |-> keepGallery,
   galleryFiles |-> galleryFiles, mods |-> mods, modFiles |-> modFiles]

DeleteRequests == [op : {"delete"}, token : BuildTokens, id : BuildIds]

\* a few whole requests, from any caller, for two concurrent request slots
PostRequestsFew ==
  {PostRequest(t, g.gallery, g.mods, <<>>, g.modsJson) :
     t \in {NoToken, SignedToken(1)},
     g \in {[gallery |-> <<>>, mods |-> <<>>, modsJson |-> "invalid"],
            [gallery |-> <<"g1">>, mods |-> <<>>, modsJson |-> "object"],
            [gallery |-> <<"g1">>, mods |-> <<Mod("a", FALSE, NullUrl)>>,
             modsJson |-> "array"]}}

PutRequestsFew ==
  {PutRequest(t, id, p.jsonOk, "n2", <<>>, p.coverFiles, p.keepGallery,
              p.galleryFiles, p.mods, <<>>) :
     t \in BuildTokens, id \in BuildIds,
     p \in {[jsonOk |-> FALSE, coverFiles |-> <<>>, keepGallery |-> {},
             galleryFiles |-> <<>>, mods |-> <<>>],
            [jsonOk |-> TRUE, coverFiles |-> <<>>, keepGallery |-> {},
             galleryFiles |-> <<"g2">>, mods |-> <<Mod("b", FALSE, "m1")>>]}}

\* mod lists of every length, from the owner, on the gallery <<"g1">>
ModChoices == {Mod("b", FALSE, "m1"), Mod("c", TRUE, "m1")}

PostRequestsMods ==
  {PostRequest(SignedToken(1), <<"g1">>, mods, <<>>, "array") :
     mods \in SeqsUpTo({Mod("a", FALSE, NullUrl)}, MaxMods)}

PutRequestsMods ==
  {PutRequest(SignedToken(1), id, TRUE, "n2", <<>>, <<>>, {}, galleryFiles, mods, modFiles) :
     id \in BuildIds, galleryFiles \in {<<"g2">>},
     mods \in SeqsUpTo(ModChoices, MaxMods), modFiles \in {<<"u1">>}}

DeleteRequestsOwner == [op : {"delete"}, token : {SignedToken(1)}, id : BuildIds]

BuildNextMods ==
  BuildNextOn({1}, PostRequestsMods, PutRequestsMods, DeleteRequestsOwner)

\* galleries, retain sets and uploads, from the owner, with one mod
PostRequestsGallery ==
  {PostRequest(SignedToken(1), gallery, <<Mod("a", FALSE, NullUrl)>>, <<>>, "array") :
     gallery \in {<<>>, <<"g1">>, <<"g1", "g2">>}}

PutRequestsGallery ==
  {PutRequest(SignedToken(1), id, TRUE, "n2", <<>>, <<>>, keepGallery, galleryFiles,
              <<Mod("a", FALSE, NullUrl)>>, <<>>) :
     id \in BuildIds, keepGallery \in SUBSET {"g1", "g2", "gx"},
     galleryFiles \in {<<>>, <<"g3">>, <<"g3", "g4">>}}

BuildNextGallery ==
  BuildNextOn({1}, PostRequestsGallery, PutRequestsGallery, DeleteRequestsOwner)

BuildNext == BuildNextOn(Conns, PostRequestsFew, PutRequestsFew, DeleteRequests)

\* two concurrent request slots of the owner: one build with the gallery
\* <<"g1">> and a mod, a PUT that clears everything, a PUT that keeps "g1",
\* uploads "g2" and writes one mod, and the DELETE
PostRequestsRace ==
  {PostRequest(SignedToken(1), <<"g1">>, <<Mod("a", FALSE, NullUrl)>>, <<>>, "array")}

PutRequestsRace ==
  {PutRequest(SignedToken(1), id, TRUE, p.car_name, <<>>, <<>>, p.keepGallery,
              p.galleryFiles, p.mods, <<>>) :
     id \in BuildIds,
     p \in {[car_name |-> "n2", keepGallery |-> {}, galleryFiles |-> <<>>,
             mods |-> <<>>],
            [car_name |-> "n3", keepGallery |-> {"g1"}, galleryFiles |-> <<"g2">>,
             mods |-> <<Mod("b", FALSE, "m1")>>]}}

\* mods flagged for a new image or not, with or without a reference of their
\* own, against no, one or two uploaded mod files, on the first build
ModImageChoices ==
  {Mod("c", TRUE, "m1"), Mod("b", FALSE, "m1"), Mod("d", FALSE, NullUrl)}

PutRequestsModImages ==
  {PutRequest(SignedToken(1), id, TRUE, "n2", <<>>, <<>>, {}, <<"g2">>, mods, modFiles) :
     id \in {1}, mods \in SeqsUpTo(ModImageChoices, MaxMods),
     modFiles \in {<<>>, <<"u1">>, <<"u1", "u2">>}}

BuildNextModImages ==
  BuildNextOn({1}, PostRequestsRace, PutRequestsModImages, DeleteRequestsOwner)

BuildNextRace ==
  BuildNextOn(Conns, PostRequestsRace, PutRequestsRace, DeleteRequestsOwner)

\* ------------------------------------------------------------------------
\* Sessions: POST /api/login, POST /api/logout, and the guarded reads
\* GET /api/events (authenticateToken) and GET /api/builds/:id
\* (ensureAuthenticated)
\* ------------------------------------------------------------------------
\* a cookie value: nothing, a string that is no token of this server, or a
\* token signed at login for user id with expiry time exp
CookieNone == [kind |-> "none", id |-> NoId, exp |-> 0]
CookieForged == [kind |-> "bad", id |-> NoId, exp |-> 0]
IssuedToken(u, now) == [kind |-> "signed", id |-> u, exp |-> now + TokenLife]

PresentedIgnoringExpiry(cookieValue, now) ==
  IF cookieValue.kind = "none" THEN NoToken
  ELSE IF cookieValue.kind = "signed" THEN SignedToken(cookieValue.id)
  ELSE BadToken

\* what jwt.verify makes of a cookie value at time now: a token is expired
\* when now >= exp
Presented(cookieValue, now) ==
  IF cookieValue.kind = "none" THEN NoToken
  ELSE IF cookieValue.kind = "signed" /\ now < cookieValue.exp
  THEN SignedToken(cookieValue.id)
  ELSE BadToken

NoBody == <<NoBuild, <<>>, <<>>>>

SessionResponse(route, cookieValue, auth, status, reached) ==
  [route |-> route, token |-> cookieValue, status |-> status, reached |-> reached,
   principal |-> IF reached THEN auth.userId ELSE NoId,
   id |-> 0, body |-> NoBody, isOwner |-> FALSE]

\* the cookie values a request may carry: the browser's cookie, none, a
\* forged one, or a copy of any token ever issued
Presentable == {cookie, CookieNone, CookieForged} \cup issued

\* POST /api/login: with valid credentials, signs a token and sets the cookie
Login ==
  /\ \E u \in Users, valid \in BOOLEAN :
       IF valid
       THEN /\ Cardinality(issued \cup {IssuedToken(u, clock)}) <= MaxLogins
            /\ cookie' = IssuedToken(u, clock)
            /\ issued' = issued \cup {IssuedToken(u, clock)}
            /\ sessionLast' = SessionResponse("login", CookieNone,
                                              EnsureAuthenticated(NoToken), 200, FALSE)
       ELSE /\ sessionLast' = SessionResponse("login", CookieNone,
                                              EnsureAuthenticated(NoToken), 401, FALSE)
            /\ UNCHANGED <<cookie, issued>>
  /\ UNCHANGED <<clock, loggedOut, notSessionVars>>

\* POST /api/logout: res.clearCookie('token'); nothing is stored
Logout ==
  /\ cookie' = CookieNone
  /\ loggedOut' = loggedOut \cup ({cookie} \cap issued)
  /\ sessionLast' = SessionResponse("logout", cookie, EnsureAuthenticated(NoToken), 200, FALSE)
  /\ UNCHANGED <<clock, issued, notSessionVars>>

\* time passes
Tick ==
  /\ clock < MaxClock
  /\ clock' = clock + 1
  /\ UNCHANGED <<cookie, issued, loggedOut, sessionLast, notSessionVars>>

\* GET /api/events
GetEvents ==
  /\ \E cookieValue \in Presentable :
       LET auth == AuthenticateToken(Presented(cookieValue, clock))
       IN sessionLast' =
            IF auth.ok
            THEN SessionResponse("getEvents", cookieValue, auth, 200, TRUE)
            ELSE SessionResponse("getEvents", cookieValue, auth, auth.status, FALSE)
  /\ UNCHANGED <<clock, cookie, issued, loggedOut, notSessionVars>>

\* GET /api/builds/:id
GetBuild(CookieValues) ==
  /\ \E cookieValue \in CookieValues, id \in BuildIds :
       LET auth == EnsureAuthenticated(Presented(cookieValue, clock))
           row == builds[id]
       IN sessionLast' =
            IF ~auth.ok
            THEN [SessionResponse("getBuild", cookieValue, auth, auth.status, FALSE)
                    EXCEPT !.id = id]
            ELSE IF row = NoBuild
            THEN [SessionResponse("getBuild", cookieValue, auth, 404, TRUE)
                    EXCEPT !.id = id]
            ELSE [SessionResponse("getBuild", cookieValue, auth, 200, TRUE)
                    EXCEPT !.id = id,
                           !.body = <<row, build_gallery[id], build_mods[id]>>,
                           !.isOwner = (row.user_id = auth.userId)]
  /\ UNCHANGED <<clock, cookie, issued, loggedOut, notSessionVars>>

SessionInit ==
  /\ clock = 0
  /\ cookie = CookieNone
  /\ issued = {}
  /\ loggedOut = {}
  /\ sessionLast = SessionResponse("none", CookieNone, EnsureAuthenticated(NoToken), 0, FALSE)

SessionNext ==
  \/ Login
  \/ Logout
  \/ Tick
  \/ GetEvents
  \/ GetBuild(Presentable)

\* builds are created, changed and deleted, and read by any caller
ReadCookies == {CookieNone, CookieForged} \cup {IssuedToken(u, 0) : u \in Users}

BuildReadNext ==
  \/ BuildNextOn({1}, PostRequestsFew, PutRequestsFew, DeleteRequests)
  \/ GetBuild(ReadCookies)

\* ---- claims on /api/builds
BuildRowsOf(b) == <<builds[b], build_gallery[b], build_mods[b]>>

\* this step sends a response of operation op
BuildResponds(op) ==
  /\ buildLast' # buildLast
  /\ buildLast'.op = op

\* C2: POST /builds is atomic.  When the request is answered 500 after its
\* build row was inserted (a gallery insert or a mod insert failed, or the
\* handler threw), no build row, gallery row or mod row of that build remains
\* persisted; when it is answered 201 the build row is persisted with every
\* requested gallery row and mod row.
PostBuildAtomic ==
  [][/\ (BuildResponds("post") /\ buildLast'.status = 500)
          => /\ builds'[buildLast'.id] = NoBuild
             /\ build_gallery'[buildLast'.id] = <<>>
             /\ build_mods'[buildLast'.id] = <<>>
     /\ \A c \in Conns :
          (/\ buildConn[c].pc \in {"postGallery", "postMods"}
           /\ buildConn'[c].pc = "idle"
           /\ buildLast'.status = 201)
          => /\ builds'[buildConn[c].id] # NoBuild
             /\ Len(build_gallery'[buildConn[c].id]) >= Len(buildConn[c].req.gallery)]_vars

\* the rows of an existing build b change in this step
BuildRowsChange(b) ==
  /\ builds[b] # NoBuild
  /\ <<builds'[b], build_gallery'[b], build_mods'[b]>> # BuildRowsOf(b)

\* connection c, working on build b for the build's owner, takes this step
OwnerActs(c, b) ==
  /\ buildConn[c].pc # "idle"
  /\ buildConn[c].id = b
  /\ Principal(buildConn[c].req.token) = builds[b].user_id
  /\ buildConn'[c] # buildConn[c]

\* C5: a build and its gallery and mod rows are modified or deleted only by
\* the owning user.  Every step that changes the row, the covers, the gallery
\* rows or the mod rows of an existing build is a step of a request of the
\* build's owner; and a PUT or DELETE of an authenticated user who is not the
\* owner of the addressed build (or addresses no build) is answered 403 (a PUT
\* whose JSON fields do not parse is answered 400 before the ownership check)
\* and leaves every build, gallery row and mod row as it was.
BuildChangedOnlyByOwner ==
  [][/\ \A b \in BuildIds :
          BuildRowsChange(b) => \E c \in Conns : OwnerActs(c, b)
     /\ (/\ BuildResponds("put") \/ BuildResponds("delete")
         /\ buildLast'.userId # NoId
         /\ builds[buildLast'.id].user_id # buildLast'.userId)
          => /\ buildLast'.status \in {403, 404} \/
                  (buildLast'.op = "put" /\ buildLast'.status = 400)
             /\ UNCHANGED <<builds, build_gallery, build_mods>>]_vars

\* a PUT or DELETE of user 2 on the existing build of user 1 was answered 403
BuildChangedOnlyByOwnerWitness ==
  /\ buildLast.op \in {"put", "delete"}
  /\ buildLast.status = 403
  /\ buildLast.userId # NoId
  /\ buildLast.id \in BuildIds
  /\ builds[buildLast.id] # NoBuild
  /\ builds[buildLast.id].user_id # buildLast.userId
  /\ Len(build_gallery[buildLast.id]) > 0

\* connection c commits the transaction of a PUT in this step, answered 200
PutSucceeds(c) ==
  /\ buildConn[c].pc = "putCommit"
  /\ buildConn'[c].pc = "idle"
  /\ buildLast'.status = 200

\* C8: after a successful PUT /builds/:id whose mod list has M entries the
\* build has exactly M mod rows, in the order of the list, row i with the
\* name of entry i and, for an entry not flagged for a new image, with the
\* entry's own image reference; whatever number of mod rows the build had.
PutModsReconciled ==
  [][\A c \in Conns :
       PutSucceeds(c) =>
         LET rows == build_mods'[buildConn[c].id]
             mods == buildConn[c].req.mods
         IN /\ Len(rows) = Len(mods)
            /\ \A i \in 1..Len(mods) :
                 /\ rows[i].mod_name = mods[i].name
                 /\ ~mods[i].hasImage => rows[i].image_url = mods[i].image_url]_vars

\* a PUT with fewer mods than the build had (and at least one) was answered 200
PutModsReconciledWitness ==
  /\ buildLast.op = "put"
  /\ buildLast.status = 200
  /\ builds[buildLast.id] # NoBuild
  /\ Len(build_mods[buildLast.id]) >= 1
  /\ buildLast.prior[2] > Len(build_mods[buildLast.id])

\* C9: after a successful PUT /builds/:id on a build with gallery G, retain
\* set K and uploads U, the gallery is the rows of G whose reference is in K,
\* followed by one row per file of U: an empty K removes every row of G, and a
\* reference of K that G does not hold adds nothing.
PutGalleryReconciled ==
  [][\A c \in Conns :
       PutSucceeds(c) =>
         build_gallery'[buildConn[c].id] =
           SelectSeq(build_gallery[buildConn[c].id],
                     LAMBDA u : u \in buildConn[c].req.keepGallery)
             \o buildConn[c].req.galleryFiles]_vars

\* a PUT on a gallery of two rows kept "g1", removed the other row and added
\* the uploads "g3" and "g4"
PutGalleryReconciledWitness ==
  /\ buildLast.op = "put"
  /\ buildLast.status = 200
  /\ buildLast.prior[1] = 2
  /\ build_gallery[buildLast.id] = <<"g1", "g3", "g4">>

\* the mod images a PUT assigns to mods[i], mods[i + 1], ... when `used` of
\* the uploaded files are consumed: a flagged mod takes the next file while
\* one is left and else gets NULL; an unflagged mod gets its own reference
RECURSIVE PairedImages(_, _, _, _)
PairedImages(mods, files, i, used) ==
  IF i > Len(mods) THEN <<>>
  ELSE LET m == mods[i]
           takes == m.hasImage /\ used < Len(files)
           image == IF takes THEN files[used + 1]
                    ELSE IF m.hasImage THEN NullUrl ELSE m.image_url
       IN <<image>> \o PairedImages(mods, files, i + 1, IF takes THEN used + 1 ELSE used)

\* the rows of a build after the PUT rq is applied, alone, to the rows `rows`
PutResult(rows, rq) ==
  LET allCovers == rq.keepCovers \o rq.coverFiles
      images == PairedImages(rq.mods, rq.modFiles, 1, 0)
  IN <<[rows[1] EXCEPT !.car_name = rq.car_name,
                       !.cover_image = ItemOrNull(allCovers, 1),
                       !.cover_image2 = ItemOrNull(allCovers, 2)],
       SelectSeq(rows[2], LAMBDA u : u \in rq.keepGallery) \o rq.galleryFiles,
       [i \in 1..Len(rq.mods) |->
          [mod_name |-> rq.mods[i].name, image_url |-> images[i]]]>>

\* C16: concurrent PUT /builds/:id requests of the owner on one build are
\* serialized by the row lock of the ownership-check read.  At most one
\* transaction holds the lock of a build; a transaction passes the locking
\* read only while no other holds the lock; and every PUT that commits turns
\* the committed rows of the build (row, covers, gallery, mods) into exactly
\* the result of applying that PUT alone to them, so that the final rows are
\* those of the PUTs applied one after the other in the order of their
\* commits, with no children of one request mixed into those of the other.
PutsSerialized ==
  /\ [](\A b \in BuildIds : Cardinality(LockHolders(b)) <= 1)
  /\ [][\A c \in Conns :
          /\ (/\ buildConn[c].pc = "putSelect"
              /\ buildConn'[c].pc = "putScalars")
               => \A d \in Conns \ {c} :
                     ~(buildConn[d].id = buildConn[c].id
                         /\ buildConn[d].pc \in PutPcs \cup DeletePcs)
          /\ PutSucceeds(c)
               => <<builds'[buildConn[c].id], build_gallery'[buildConn[c].id],
                     build_mods'[buildConn[c].id]>> =
                    PutResult(BuildRowsOf(buildConn[c].id), buildConn[c].req)]_vars

\* one PUT of the owner waits at the locking read while the other PUT of the
\* owner, on the same build, has written gallery rows it has not committed
PutsSerializedWitness ==
  \E c, d \in Conns :
    /\ c # d
    /\ buildConn[c].pc = "putSelect"
    /\ buildConn[d].pc = "putModsDelete"
    /\ buildConn[d].id = buildConn[c].id
    /\ buildConn[d].req.galleryFiles # <<>>
    /\ buildConn[c].req.car_name # buildConn[d].req.car_name

ConnectionsReleased ==
  \A c \in Conns : buildConn[c].pc # "leaked"

\* C19: PUT /builds/:id tells a missing build from a foreign one.  An
\* authenticated PUT that reaches the ownership check is answered 404 when no
\* build has the id and 403 when the build belongs to another user, and in
\* both cases no build, gallery row or mod row changes.
PutMissingIsNotFound ==
  [][\A c \in Conns :
       (/\ buildConn[c].pc = "putSelect"
        /\ buildConn'[c].pc = "idle"
        /\ BuildResponds("put"))
         => /\ builds[buildConn[c].id] = NoBuild => buildLast'.status = 404
            /\ builds[buildConn[c].id] # NoBuild => buildLast'.status = 403
            /\ UNCHANGED <<builds, build_gallery, build_mods>>]_vars

\* C20: PUT /builds/:id pairs mod images by walking the mod list in order
\* with a cursor over the uploaded mod files.  Each insert of a mod flagged
\* for a new image writes the file at the cursor and advances the cursor when
\* a file is left, and writes NULL, cursor unchanged and the mod's own
\* reference unused, when none is left; the insert of an unflagged mod writes
\* the mod's own reference (NULL when it has none) and leaves the cursor.
\* After a successful PUT the image of mod row i is the i-th of that pairing.
ModImagesPaired ==
  [][\A c \in Conns :
       LET cn == buildConn[c]
           rq == cn.req
       IN /\ (/\ cn.pc = "putModInsert"
               /\ buildConn'[c].pc \in {"putModInsert", "putCommit"})
               => LET m == rq.mods[cn.k]
                      row == buildConn'[c].work.mods[cn.k]
                      left == cn.imgIdx <= Len(rq.modFiles)
                  IN /\ (m.hasImage /\ left)
                          => /\ row.image_url = rq.modFiles[cn.imgIdx]
                             /\ buildConn'[c].imgIdx = cn.imgIdx + 1
                     /\ (m.hasImage /\ ~left)
                          => /\ row.image_url = NullUrl
                             /\ buildConn'[c].imgIdx = cn.imgIdx
                     /\ ~m.hasImage
                          => /\ row.image_url = m.image_url
                             /\ buildConn'[c].imgIdx = cn.imgIdx
          /\ PutSucceeds(c)
               => LET rows == build_mods'[cn.id]
                      images == PairedImages(rq.mods, rq.modFiles, 1, 0)
                  IN /\ Len(rows) = Len(rq.mods)
                     /\ \A i \in 1..Len(rows) : rows[i].image_url = images[i]]_vars

\* a PUT with two flagged mods and one uploaded file was answered 200: the
\* first mod has the file, the second has no image although it came with a
\* reference of its own
ModImagesPairedWitness ==
  /\ buildLast.op = "put"
  /\ buildLast.status = 200
  /\ build_mods[buildLast.id] =
       <<[mod_name |-> "c", image_url |-> "u1"], [mod_name |-> "c", image_url |-> NullUrl]>>

TransactionEndedBeforeRelease ==
  \A c \in Conns : regConn[c].pc = "done" => ~regConn[c].inTxn

\* C14: a successful PUT /update-event-registration/:id by the owner with car
\* list C replaces the car set: after the commit the car rows of the
\* registration are, one for one and in order, the entries of C, for every
\* array C; and a request of a user who does not own the registration is
\* answered 403 (400 when its body is malformed) with the registration rows
\* and car rows unchanged.
UpdateReplacesCars ==
  [][/\ (updConn.pc = "commit" /\ updConn'.pc = "done" /\ updConn'.status = 200)
          => LET cs == SelectSeq(registered_cars',
                                 LAMBDA x : x.registration_id = updConn.id)
                 C == updConn.req.cars
             IN /\ Len(cs) = Len(C)
                /\ \A i \in 1..Len(cs) : cs[i].make = C[i].make
     /\ (/\ updConn.pc \in {"idle", "done"}
         /\ updConn' # updConn
         /\ updConn'.userId # NoId
         /\ RegistrationById(updConn'.id) # NoRegistration
         /\ RegistrationById(updConn'.id).user_id # updConn'.userId)
          => /\ updConn'.status \in {400, 403}
             /\ UNCHANGED <<registrations, registered_cars>>]_vars

\* C15: a duplicate-key conflict is answered with status 409 or 400, never
\* 500: the response to a register-event request that met ER_DUP_ENTRY, and
\* the response to a follow request for an existing edge, have status 409 or
\* 400.
DuplicateConflictStatus ==
  /\ \A c \in Conns :
       (regConn[c].pc = "done"
          /\ regConn[c].resp.msg \in {MsgAlreadyRegistered, MsgDuplicateEntry})
       => regConn[c].resp.status \in {400, 409}
  /\ followLast.msg = "You are already following this user."
       => followLast.status \in {400, 409}

\* ---- claims on sessions and the guards
\* this step answers a request to one of the guarded reads
GuardedResponds ==
  /\ sessionLast' # sessionLast
  /\ sessionLast'.route \in {"getEvents", "getBuild"}

\* the cookie value is a token signed by this server and not expired now
TokenValidNow(cookieValue) ==
  cookieValue.kind = "signed" /\ clock < cookieValue.exp

\* C11: every protected endpoint answers a request without a token with 401
\* and a request whose token is forged or expired with 403, in both cases
\* without running the handler or touching the store; only a request with a
\* validly signed, unexpired token reaches the handler, with the token's user
\* as its principal.
GuardUniform ==
  [][GuardedResponds =>
       LET r == sessionLast'
       IN /\ r.token.kind = "none" => (r.status = 401 /\ ~r.reached)
          /\ (r.token.kind # "none" /\ ~TokenValidNow(r.token))
               => (r.status = 403 /\ ~r.reached)
          /\ TokenValidNow(r.token) => (r.reached /\ r.principal = r.token.id)
          /\ UNCHANGED notSessionVars]_vars

\* C12: logout revokes nothing.  A guarded request that presents a token
\* issued at login reaches the handler at every time before the token's
\* expiry, whether or not logout was called since, and is rejected at every
\* time from the expiry on; a request without a cookie is answered 401; and
\* logout only clears the browser's cookie.
LogoutDoesNotRevoke ==
  [][/\ GuardedResponds =>
          LET r == sessionLast'
          IN /\ (r.token \in issued /\ clock < r.token.exp) => r.reached
             /\ (r.token \in issued /\ clock >= r.token.exp)
                  => (~r.reached /\ r.status \in {401, 403})
             /\ r.token = CookieNone => r.status = 401
     /\ (sessionLast' # sessionLast /\ sessionLast'.route = "logout")
          => (cookie' = CookieNone /\ issued' = issued)]_vars

\* after a logout that cleared the cookie, GET /api/events with a copy of the
\* logged-out token was answered 200
LogoutDoesNotRevokeWitness ==
  /\ sessionLast.route = "getEvents"
  /\ sessionLast.status = 200
  /\ sessionLast.token \in loggedOut
  /\ cookie = CookieNone

\* C13: GET /builds/:id is open to every caller.  For an existing build the
\* owner, another user and a caller without a token are all answered 200 with
\* the same build row, covers, gallery and mods, and isOwner is true exactly
\* for the owner.
GetBuildOpenToAll ==
  [][(GuardedResponds /\ sessionLast'.route = "getBuild"
        /\ builds[sessionLast'.id] # NoBuild) =>
       LET r == sessionLast'
       IN /\ r.status = 200
          /\ r.body = BuildRowsOf(r.id)
          /\ r.isOwner = (TokenValidNow(r.token)
                            /\ r.token.id = builds[r.id].user_id)]_vars

Init == RegInit /\ FollowInit /\ ReviewInit /\ BuildInit /\ SessionInit

\* the schema with the unique key, for the subsystems that do not read it
InitKeyed == Init /\ reviewUniqueKey = TRUE

SpecReg == InitKeyed /\ [][RegNext]_vars

SpecRegUpdate == InitKeyed /\ [][RegUpdateNext]_vars

SpecFollow == InitKeyed /\ [][FollowNext]_vars

SpecReview == Init /\ [][ReviewNext]_vars

SpecBuild == InitKeyed /\ [][BuildNext]_vars

SpecBuildMods == InitKeyed /\ [][BuildNextMods]_vars

SpecBuildGallery == InitKeyed /\ [][BuildNextGallery]_vars

SpecBuildRace == InitKeyed /\ [][BuildNextRace]_vars

SpecBuildModImages == InitKeyed /\ [][BuildNextModImages]_vars

SpecSession == InitKeyed /\ [][SessionNext]_vars

SpecBuildRead == InitKeyed /\ [][BuildReadNext]_vars

====
